---- MODULE Spec2Model ----
(***************************************************************************)
(* Model of scripts/vita/parse_core/util.py: the little-endian readers     *)
(* u16 and u32, the NUL-terminated string reader c_str and the hexdump     *)
(* printer.                                                                *)
(*                                                                         *)
(* A byte buffer is a sequence of values in 0..255.  Python indexes from 0 *)
(* and TLA+ from 1: Python's buf[i] is buf[i + 1] here.  Text (a Python    *)
(* str) is a sequence of code points, so that formatting is modelled       *)
(* character by character.  Offsets are non-negative.                      *)
(*                                                                         *)
(* TLC's integers are 32 bits wide and signed, Python's are unbounded: a   *)
(* value u32 returns is kept as two 16-bit halves, [hi, lo], which stands  *)
(* for hi * 65536 + lo.                                                    *)
(***************************************************************************)
EXTENDS Integers, Sequences, FiniteSets, TLC

VARIABLES
    fn,       \* the function that was called
    pc,       \* position in the call: "call", "loop", "ret", "done", "error"
    buf,      \* u16, u32, c_str: the buffer argument
    arg_off,  \* u16, u32, c_str: the offset argument, as passed
    off,      \* c_str: the local off, advanced by the loop
    out,      \* c_str: the bytearray out
    reads,    \* c_str: the positions i (from 0) at which buf[i] was evaluated
    ret,      \* <<>> while nothing was returned, <<value>> once returned
    err,      \* the exception that ended the call, "" if none
    src,      \* hexdump: the input bytes
    length,   \* hexdump: bytes per line
    sep,      \* hexdump: the placeholder, a text
    c,        \* hexdump: the loop variable c of range(0, len(src), length)
    lines,    \* hexdump: the list lines
    stdout    \* hexdump: what print wrote

vars == <<fn, pc, buf, arg_off, off, out, reads, ret, err,
          src, length, sep, c, lines, stdout>>

strVars == <<off, out, reads>>
dumpVars == <<src, length, sep, c, lines, stdout>>

----------------------------------------------------------------------------
(* Bounds of the model *)

\* longest buffer handed to u16 and u32
MaxLen == 5
\* longest buffer handed to c_str
MaxStrLen == 4
\* longest input handed to hexdump
MaxSrc == 18

\* byte values the buffers of u16 and u32 are built from
IntBytes == {0, 18, 52, 128, 255}
\* byte values the buffers of c_str are built from
StrBytes == {0, 1, 65, 127, 128, 255}

Min(a, b) == IF a < b THEN a ELSE b

\* every sequence over S of length 0..n
SeqsUpTo(S, n) == UNION {[1..k -> S] : k \in 0..n}

----------------------------------------------------------------------------
(* Python primitives the module relies on *)

\* buf[a:b] for 0 <= a <= b: the slice is cut at the end of the buffer
Slice(s, a, b) == SubSeq(s, Min(a, Len(s)) + 1, Min(b, Len(s)))

\* the value of n little-endian bytes, for n <= 2
RECURSIVE LittleEndian(_)
LittleEndian(b) ==
    IF b = <<>> THEN 0 ELSE Head(b) + 256 * LittleEndian(Tail(b))

\* a variant of struct.unpack that pads a short buffer with zero bytes
UnpackPadded(size, b) ==
    LET p == b \o [i \in 1..(size - Len(b)) |-> 0]
    IN  [ok |-> TRUE,
         val |-> IF size = 2 THEN LittleEndian(p)
                 ELSE [hi |-> LittleEndian(SubSeq(p, 3, 4)),
                       lo |-> LittleEndian(SubSeq(p, 1, 2))]]

\* a variant of struct.unpack that reads "<h" / "<i", the signed formats
UnpackSigned(size, b) ==
    LET top(h) == IF h >= 32768 THEN h - 65536 ELSE h
    IN  IF Len(b) # size THEN [ok |-> FALSE, val |-> 0]
        ELSE [ok |-> TRUE,
              val |-> IF size = 2 THEN top(LittleEndian(b))
                      ELSE [hi |-> top(LittleEndian(SubSeq(b, 3, 4))),
                            lo |-> LittleEndian(SubSeq(b, 1, 2))]]

\* a variant of struct.unpack that reads ">H" / ">I", the big-endian formats
UnpackBigEndian(size, b) ==
    LET rev(s) == [i \in 1..Len(s) |-> s[Len(s) + 1 - i]]
    IN  IF Len(b) # size THEN [ok |-> FALSE, val |-> 0]
        ELSE [ok |-> TRUE,
              val |-> IF size = 2 THEN LittleEndian(rev(b))
                      ELSE [hi |-> LittleEndian(rev(SubSeq(b, 1, 2))),
                            lo |-> LittleEndian(rev(SubSeq(b, 3, 4)))]]

\* struct.unpack("<H", b) for size 2 and struct.unpack("<I", b) for size 4:
\* struct.error unless b holds exactly size bytes, else the unsigned value
Unpack(size, b) ==
    IF Len(b) # size THEN [ok |-> FALSE, val |-> 0]
    ELSE [ok |-> TRUE,
          val |-> IF size = 2 THEN LittleEndian(b)
                  ELSE [hi |-> LittleEndian(SubSeq(b, 3, 4)),
                        lo |-> LittleEndian(SubSeq(b, 1, 2))]]

----------------------------------------------------------------------------
(* u16 and u32 *)

\* The body shared by u16 (size 2) and u32 (size 4): slice, then unpack.
\* str2bytes raises AttributeError on a bytes object, which the except
\* clause swallows, so the slice reaches struct.unpack unchanged.
ReadInt(size) ==
    LET r == Unpack(size, Slice(buf, arg_off, arg_off + size))
    IN  /\ pc = "call"
        /\ IF r.ok
           THEN /\ pc' = "done"
                /\ ret' = <<r.val>>
                /\ err' = ""
           ELSE /\ pc' = "error"
                /\ ret' = <<>>
                /\ err' = "struct.error"
        /\ UNCHANGED <<fn, buf, arg_off, strVars, dumpVars>>

u16 == fn = "u16" /\ ReadInt(2)

u32 == fn = "u32" /\ ReadInt(4)

InitInt ==
    /\ fn \in {"u16", "u32"}
    /\ pc = "call"
    /\ buf \in SeqsUpTo(IntBytes, MaxLen)
    /\ arg_off \in 0..(MaxLen + 1)
    /\ off = 0 /\ out = <<>> /\ reads = {}
    /\ ret = <<>> /\ err = ""
    /\ src = <<>> /\ length = 1 /\ sep = <<>> /\ c = 0
    /\ lines = <<>> /\ stdout = <<>>

NextInt == u16 \/ u32

SpecInt == InitInt /\ [][NextInt]_vars

\* the byte at position arg_off + k of the buffer (positions from 0)
BytesAt(k) == buf[arg_off + k + 1]

\* C1: when two bytes are available at the offset, u16 returns the value v
\* in 0..65535 whose little-endian encoding (v mod 256, v div 256) is the
\* two bytes at the offset, whatever bytes precede or follow them.
C1_U16RoundTrip ==
    (fn = "u16" /\ pc # "call" /\ arg_off + 2 <= Len(buf)) =>
        /\ pc = "done"
        /\ Len(ret) = 1
        /\ ret[1] \in 0..65535
        /\ ret[1] % 256 = BytesAt(0)
        /\ ret[1] \div 256 = BytesAt(1)

\* u16 read 0x1234 from the bytes 0x34, 0x12 with bytes before and after
C1_Witness ==
    /\ fn = "u16" /\ pc = "done"
    /\ arg_off > 0 /\ arg_off + 2 < Len(buf)
    /\ BytesAt(0) = 52 /\ BytesAt(1) = 18
    /\ ret = <<4660>>

\* C2: when four bytes are available at the offset, u32 returns
\* b0 + 256*b1 + 65536*b2 + 16777216*b3, an unsigned value in 0..4294967295:
\* the low half is b0 + 256*b1 and the high half is b2 + 256*b3, both in
\* 0..65535, so the encoding of the value is the four bytes read.
C2_U32Unsigned ==
    (fn = "u32" /\ pc # "call" /\ arg_off + 4 <= Len(buf)) =>
        /\ pc = "done"
        /\ Len(ret) = 1
        /\ ret[1].lo \in 0..65535
        /\ ret[1].hi \in 0..65535
        /\ ret[1].lo = BytesAt(0) + 256 * BytesAt(1)
        /\ ret[1].hi = BytesAt(2) + 256 * BytesAt(3)
        /\ ret[1].lo % 256 = BytesAt(0) /\ ret[1].lo \div 256 = BytesAt(1)
        /\ ret[1].hi % 256 = BytesAt(2) /\ ret[1].hi \div 256 = BytesAt(3)

\* u32 returned a value of 2^31 or more: its top byte is 0x80 or 0xFF
C2_Witness ==
    /\ fn = "u32" /\ pc = "done"
    /\ BytesAt(3) >= 128
    /\ ret[1].hi >= 32768

\* C3: when fewer than 2 (u16) or 4 (u32) bytes remain at the offset, the
\* offsets at and past the end included, the call ends in an error and
\* returns nothing.
C3_UnderrunFails ==
    LET size == IF fn = "u16" THEN 2 ELSE 4
    IN  (fn \in {"u16", "u32"} /\ pc # "call" /\ Len(buf) - arg_off < size) =>
            /\ pc = "error"
            /\ err # ""
            /\ ret = <<>>

\* u32 failed on a slice that holds one to three bytes
C3_Witness ==
    /\ fn = "u32" /\ pc = "error"
    /\ arg_off < Len(buf) /\ Len(buf) - arg_off < 4
    /\ ret = <<>>

----------------------------------------------------------------------------
(* c_str *)

\* a variant of the loop condition that admits the position len(buf)
LoopCondInclusive(o, b) == o <= Len(b)

\* the while condition: off < len(buf)
LoopCond(o, b) == o < Len(b)

\* a variant of the terminator test that stops at no byte
IsTerminatorNever(b) == b < 0

\* the break condition: b == 0
IsTerminator(b) == b = 0

\* a variant of the decoding that keeps every byte as a character
DecodeKeep(bytes) == bytes

\* out.decode('ascii', errors='ignore'): the bytes above 0x7F are dropped
Decode(bytes) == SelectSeq(bytes, LAMBDA b : b < 128)

\* out = bytearray()
c_str_call ==
    /\ fn = "c_str" /\ pc = "call"
    /\ out' = <<>>
    /\ off' = arg_off
    /\ pc' = "loop"
    /\ UNCHANGED <<fn, buf, arg_off, reads, ret, err, dumpVars>>

\* One iteration of the while loop.  buf[off] raises IndexError at a
\* position outside the buffer.
c_str_loop ==
    /\ fn = "c_str" /\ pc = "loop"
    /\ LoopCond(off, buf)
    /\ reads' = reads \cup {off}
    /\ IF off >= Len(buf)
       THEN /\ pc' = "error"
            /\ err' = "IndexError"
            /\ UNCHANGED <<off, out>>
       ELSE /\ err' = err
            /\ IF IsTerminator(buf[off + 1])
               THEN /\ pc' = "ret"
                    /\ UNCHANGED <<off, out>>
               ELSE /\ out' = Append(out, buf[off + 1])
                    /\ off' = off + 1
                    /\ pc' = "loop"
    /\ UNCHANGED <<fn, buf, arg_off, ret, dumpVars>>

\* The while condition is false: the loop ends.
c_str_exit ==
    /\ fn = "c_str" /\ pc = "loop"
    /\ ~LoopCond(off, buf)
    /\ pc' = "ret"
    /\ UNCHANGED <<fn, buf, arg_off, strVars, ret, err, dumpVars>>

\* return out.decode('ascii', errors='ignore')
c_str_return ==
    /\ fn = "c_str" /\ pc = "ret"
    /\ ret' = <<Decode(out)>>
    /\ pc' = "done"
    /\ UNCHANGED <<fn, buf, arg_off, strVars, err, dumpVars>>

InitStr ==
    /\ fn = "c_str"
    /\ pc = "call"
    /\ buf \in SeqsUpTo(StrBytes, MaxStrLen)
    /\ arg_off \in 0..(MaxStrLen + 1)
    /\ off = 0 /\ out = <<>> /\ reads = {}
    /\ ret = <<>> /\ err = ""
    /\ src = <<>> /\ length = 1 /\ sep = <<>> /\ c = 0
    /\ lines = <<>> /\ stdout = <<>>

NextStr == c_str_call \/ c_str_loop \/ c_str_exit \/ c_str_return

SpecStr == InitStr /\ [][NextStr]_vars

\* the smallest position e >= o (from 0) with b[e] = 0, or len(b)
TermIndex(b, o) ==
    IF \E e \in o..(Len(b) - 1) : b[e + 1] = 0
    THEN CHOOSE e \in o..(Len(b) - 1) :
            /\ b[e + 1] = 0
            /\ \A d \in o..(e - 1) : b[d + 1] # 0
    ELSE Len(b)

\* the characters of a byte string: its valid ASCII bytes, in order
RECURSIVE AsciiText(_)
AsciiText(bytes) ==
    IF bytes = <<>> THEN <<>>
    ELSE (IF Head(bytes) <= 127 THEN <<Head(bytes)>> ELSE <<>>)
             \o AsciiText(Tail(bytes))

\* C4: for an offset inside the buffer, c_str returns the text of the bytes
\* from the offset up to the first zero byte at or after it, or up to the
\* end of the buffer when there is none: empty when the byte at the offset
\* is zero, the whole remainder without error when no terminator exists.
C4_CStrSpan ==
    (fn = "c_str" /\ arg_off < Len(buf)) =>
        /\ err = ""
        /\ pc = "done" =>
            LET e == TermIndex(buf, arg_off)
            IN  /\ ret = <<AsciiText(SubSeq(buf, arg_off + 1, e))>>
                /\ buf[arg_off + 1] = 0 => ret = << <<>> >>
                /\ e = Len(buf) =>
                      ret = <<AsciiText(SubSeq(buf, arg_off + 1, Len(buf)))>>

\* c_str stopped at a terminator that non-zero bytes follow, after
\* accumulating at least one byte
C4_Witness ==
    /\ fn = "c_str" /\ pc = "done"
    /\ arg_off > 0
    /\ TermIndex(buf, arg_off) > arg_off
    /\ TermIndex(buf, arg_off) + 1 < Len(buf)
    /\ buf[Len(buf)] # 0
    /\ ret = <<SubSeq(buf, arg_off + 1, TermIndex(buf, arg_off))>>

\* C5: for an offset inside the buffer c_str never fails, and the string it
\* returns holds the accumulated bytes that are valid ASCII, as their
\* characters and in their order; the bytes above 0x7F are dropped.
C5_LenientDecode ==
    (fn = "c_str" /\ arg_off < Len(buf)) =>
        /\ pc # "error" /\ err = ""
        /\ pc = "done" =>
            /\ Len(ret) = 1
            /\ ret[1] = AsciiText(out)
            /\ \A i \in 1..Len(ret[1]) : ret[1][i] \in 0..127

\* c_str dropped a byte above 0x7F between two ASCII bytes it kept
C5_Witness ==
    /\ fn = "c_str" /\ pc = "done"
    /\ Len(out) = 3
    /\ out[1] <= 127 /\ out[2] > 127 /\ out[3] <= 127
    /\ ret = <<<<out[1], out[3]>>>>

\* C10: c_str evaluates buf[i] only at positions arg_off <= i < len(buf),
\* and raises nothing; called with an offset at or past the end (the empty
\* buffer included) it reads no byte and returns the empty string.
C10_NoReadPastEnd ==
    fn = "c_str" =>
        /\ \A i \in reads : arg_off <= i /\ i < Len(buf)
        /\ pc # "error" /\ err = ""
        /\ (arg_off >= Len(buf) /\ pc = "done") =>
              /\ reads = {}
              /\ ret = << <<>> >>

\* c_str returned the empty string for an offset past the end of a
\* non-empty buffer, having read nothing
C10_Witness ==
    /\ fn = "c_str" /\ pc = "done"
    /\ Len(buf) > 0 /\ arg_off > Len(buf)
    /\ reads = {}
    /\ ret = << <<>> >>

----------------------------------------------------------------------------
(* hexdump *)

\* code points of the characters the format strings hold
LF == 10
SP == 32
ZERO == 48
COLON == 58
BAR == 124

\* the default of the parameter length
DefaultLength == 16
\* the default of the parameter sep, '.'
DefaultSep == 46
\* the length of hex_chunk above which the gap is inserted, and its place
GapAt == 24

\* line widths hexdump is called with
Lengths == {1, 4, 8, 9, DefaultLength}
\* placeholders hexdump is called with: '.' and ' '
Seps == {<<DefaultSep>>, <<SP>>}
\* the inputs of hexdump: n bytes, the i-th being start + i * step mod 256
Starts == {0, 32, 65, 120, 250}
Steps == {0, 1, 37}
Pattern(n, start, step) == [i \in 1..n |-> (start + (i - 1) * step) % 256]

\* string.digits, string.ascii_letters and string.punctuation
Digits == 48..57
AsciiLetters == (97..122) \cup (65..90)
Punctuation == (33..47) \cup (58..64) \cup (91..96) \cup (123..126)

\* DISPLAY = string.digits + string.ascii_letters + string.punctuation
Display == Digits \cup AsciiLetters \cup Punctuation

\* FILTER: for each x of map(chr, range(256)) in turn, x itself when it is
\* in DISPLAY and sep otherwise, joined.  FilterRange(lo, hi, sp) is the
\* part of the join that the code points lo..hi contribute.
RECURSIVE FilterRange(_, _, _)
FilterRange(lo, hi, sp) ==
    IF lo = hi THEN (IF lo \in Display THEN <<lo>> ELSE sp)
    ELSE LET mid == (lo + hi) \div 2
         IN  FilterRange(lo, mid, sp) \o FilterRange(mid + 1, hi, sp)

Filter(sp) == FilterRange(0, 255, sp)

\* the lower-case hexadecimal digit of d in 0..15
HexDigit(d) == IF d < 10 THEN ZERO + d ELSE 87 + d

\* "%x" % n
RECURSIVE Hex(_)
Hex(n) ==
    IF n < 16 THEN <<HexDigit(n)>>
    ELSE Hex(n \div 16) \o <<HexDigit(n % 16)>>

\* "%0<w>x" % n: zeros on the left up to the width w, never cut
HexPadded(n, w) ==
    LET h == Hex(n)
    IN  [i \in 1..(w - Len(h)) |-> ZERO] \o h

\* "%-*s" % (w, t): spaces on the right up to the width w, never cut
PadRight(t, w) == t \o [i \in 1..(w - Len(t)) |-> SP]

\* ' '.join(["%02x" % _byte_val(x) for x in chars])
RECURSIVE HexChunk(_)
HexChunk(chars) ==
    IF chars = <<>> THEN <<>>
    ELSE IF Len(chars) = 1 THEN HexPadded(chars[1], 2)
    ELSE HexPadded(chars[1], 2) \o <<SP>> \o HexChunk(Tail(chars))

\* a variant of the gap rule that applies to a full line of 16 bytes only
InsertGapFullOnly(h) ==
    IF Len(h) >= 47
    THEN SubSeq(h, 1, GapAt) \o <<SP>> \o SubSeq(h, GapAt + 1, Len(h))
    ELSE h

\* a variant of the gap rule that inserts two spaces
InsertGapWide(h) ==
    IF Len(h) > GapAt
    THEN SubSeq(h, 1, GapAt) \o <<SP, SP>> \o SubSeq(h, GapAt + 1, Len(h))
    ELSE h

\* if len(hex_chunk) > 24:
\*     hex_chunk = "%s %s" % (hex_chunk[:24], hex_chunk[24:])
InsertGap(h) ==
    IF Len(h) > GapAt
    THEN SubSeq(h, 1, GapAt) \o <<SP>> \o SubSeq(h, GapAt + 1, Len(h))
    ELSE h

\* ''.join(["%s" % FILTER[_byte_val(x)] for x in chars])
Printable(chars, sp) ==
    LET f == Filter(sp)
    IN  [i \in 1..Len(chars) |-> f[chars[i] + 1]]

\* "%08x:  %-*s  |%s|\n" % (c, length*3, hex_chunk, printable)
FormatLine(cc, chars, len, sp) ==
    HexPadded(cc, 8) \o <<COLON, SP, SP>>
        \o PadRight(InsertGap(HexChunk(chars)), len * 3)
        \o <<SP, SP, BAR>> \o Printable(chars, sp) \o <<BAR, LF>>

\* ''.join(lines)
RECURSIVE Join(_)
Join(ls) == IF ls = <<>> THEN <<>> ELSE Head(ls) \o Join(Tail(ls))

\* The statements before the loop: lines = [], and range(0, len(src),
\* length) starts at 0.
hexdump_call ==
    /\ fn = "hexdump" /\ pc = "call"
    /\ lines' = <<>>
    /\ c' = 0
    /\ pc' = "loop"
    /\ UNCHANGED <<fn, buf, arg_off, strVars, ret, err, src, length, sep, stdout>>

\* One iteration of the for loop, for the next c of the range.
hexdump_line ==
    /\ fn = "hexdump" /\ pc = "loop"
    /\ c < Len(src)
    /\ LET chars == Slice(src, c, c + length)
       IN  lines' = Append(lines, FormatLine(c, chars, length, sep))
    /\ c' = c + length
    /\ UNCHANGED <<fn, pc, buf, arg_off, strVars, ret, err, src, length, sep, stdout>>

\* The range is exhausted: print(''.join(lines)), which ends what it writes
\* with a newline.
hexdump_print ==
    /\ fn = "hexdump" /\ pc = "loop"
    /\ c >= Len(src)
    /\ stdout' = stdout \o Join(lines) \o <<LF>>
    /\ pc' = "done"
    /\ UNCHANGED <<fn, buf, arg_off, strVars, ret, err, src, length, sep, c, lines>>

InitDump ==
    /\ fn = "hexdump"
    /\ pc = "call"
    /\ \E n \in 0..MaxSrc, start \in Starts, step \in Steps :
          src = Pattern(n, start, step)
    /\ length \in Lengths
    /\ sep \in Seps
    /\ c = 0 /\ lines = <<>> /\ stdout = <<>>
    /\ buf = <<>> /\ arg_off = 0
    /\ off = 0 /\ out = <<>> /\ reads = {}
    /\ ret = <<>> /\ err = ""

NextDump == hexdump_call \/ hexdump_line \/ hexdump_print

SpecDump == InitDump /\ [][NextDump]_vars

----------------------------------------------------------------------------
(* Reading the output of hexdump back *)

\* the lines of a text: each run of characters that a newline ends, and
\* the characters after the last newline if there are any
RECURSIVE SplitLines(_)
SplitLines(t) ==
    IF t = <<>> THEN <<>>
    ELSE IF \E k \in 1..Len(t) : t[k] = LF
    THEN LET k == CHOOSE j \in 1..Len(t) :
                     t[j] = LF /\ \A i \in 1..(j - 1) : t[i] # LF
         IN  <<SubSeq(t, 1, k - 1)>> \o SplitLines(SubSeq(t, k + 1, Len(t)))
    ELSE <<t>>

\* the lines of the output that hold something: the formatted dump lines
DumpLines == SelectSeq(SplitLines(stdout), LAMBDA l : l # <<>>)

\* the value of a text of hexadecimal digits
RECURSIVE ParseHex(_)
ParseHex(t) ==
    IF t = <<>> THEN 0
    ELSE LET d == t[Len(t)]
         IN  16 * ParseHex(SubSeq(t, 1, Len(t) - 1))
                 + (IF d \in 48..57 THEN d - 48 ELSE d - 87)

IsHexDigit(d) == d \in (48..57) \cup (97..102)

\* the position of the first '|' of a line, 0 if it has none
FirstBar(l) ==
    IF \E k \in 1..Len(l) : l[k] = BAR
    THEN CHOOSE k \in 1..Len(l) : l[k] = BAR /\ \A i \in 1..(k - 1) : l[i] # BAR
    ELSE 0

\* the text between the first '|' of a line and the '|' that ends it
AsciiColumn(l) == SubSeq(l, FirstBar(l) + 1, Len(l) - 1)

\* the hex column of a line: what lies between "oooooooo:  " and "  |"
HexColumn(l) == SubSeq(l, 12, FirstBar(l) - 3)

\* the number of bytes the k-th line of the dump shows
ChunkSize(k) == Min(length, Len(src) - (k - 1) * length)

\* a hex column shows the gap: two spaces after the 8th byte pair, and a
\* 9th byte pair behind them
HasGap(h) == Len(h) >= 26 /\ h[24] = SP /\ h[25] = SP /\ h[26] # SP

\* where the j-th byte pair starts in a hex column whose pairs are one space
\* apart, with one more space after the 8th
PairAt(j) == IF j <= 8 THEN 3 * (j - 1) + 1 ELSE 3 * (j - 1) + 2

\* C6 as claimed: hexdump of an empty input writes nothing at all, not even
\* an empty line.
C6_EmptyWritesNothing ==
    (fn = "hexdump" /\ pc = "done" /\ Len(src) = 0) =>
        /\ stdout = <<>>
        /\ Len(SplitLines(stdout)) = 0

\* C7 as claimed: with the default width 16, a line of the dump shows the
\* gap after its 8th byte pair if and only if it holds 16 bytes.
C7_GapOnlyOnFullLine ==
    (fn = "hexdump" /\ pc = "done" /\ length = DefaultLength) =>
        \A k \in 1..Len(DumpLines) :
            HasGap(HexColumn(DumpLines[k])) <=> ChunkSize(k) = DefaultLength

\* C7 as amended: with the default width 16, a line of the dump shows the
\* gap after its 8th byte pair if and only if it holds more than 8 bytes.
\* The byte pairs of a line are one space apart, with one more space
\* between the 8th and the 9th; a line of 1 to 8 bytes has no gap, a line of
\* 9 to 15 bytes has it like a full line.
C7_GapAfterEightBytes ==
    (fn = "hexdump" /\ pc = "done" /\ length = DefaultLength) =>
        \A k \in 1..Len(DumpLines) :
            LET h == HexColumn(DumpLines[k])
                n == ChunkSize(k)
                pairs == UNION {{PairAt(j), PairAt(j) + 1} : j \in 1..n}
            IN  /\ HasGap(h) <=> n > 8
                /\ \A j \in 1..n :
                      /\ IsHexDigit(h[PairAt(j)]) /\ IsHexDigit(h[PairAt(j) + 1])
                      /\ ParseHex(SubSeq(h, PairAt(j), PairAt(j) + 1))
                            = src[(k - 1) * length + j]
                /\ \A i \in 1..Len(h) : i \notin pairs => h[i] = SP

\* hexdump printed, under the default width, a single line of 9 to 15 bytes,
\* which shows the gap
C7_Witness ==
    /\ fn = "hexdump" /\ pc = "done" /\ length = DefaultLength
    /\ Len(src) \in 9..15
    /\ Len(DumpLines) = 1
    /\ HasGap(HexColumn(DumpLines[1]))

\* C8 as claimed: hexdump of n bytes emits ceil(n / length) lines; the k-th
\* starts with the offset (k - 1) * length as 8 hex digits; and the ASCII
\* columns of the lines, joined, hold n characters, the i-th being byte i
\* itself when it is a digit, a letter or a punctuation character (0x21 to
\* 0x7E) and the placeholder otherwise.  The lines are all the lines of the
\* text print wrote.
C8_LinesAndAsciiColumn ==
    (fn = "hexdump" /\ pc = "done") =>
        LET n == Len(src)
            emitted == SplitLines(stdout)
            cols == Join([k \in 1..Len(emitted) |-> AsciiColumn(emitted[k])])
        IN  /\ Len(emitted) = (n + length - 1) \div length
            /\ \A k \in 1..Len(emitted) :
                  /\ \A i \in 1..8 : IsHexDigit(emitted[k][i])
                  /\ emitted[k][9] = COLON
                  /\ ParseHex(SubSeq(emitted[k], 1, 8)) = (k - 1) * length
                  /\ emitted[k][Len(emitted[k])] = BAR
            /\ Len(cols) = n
            /\ \A i \in 1..n :
                  cols[i] = IF src[i] \in 33..126 THEN src[i] ELSE sep[1]

\* C9: in every line hexdump prints, the '|' that opens the ASCII column is
\* at the same position, 11 + length * 3 + 3: the hex text of a chunk, gap
\* included, is never longer than the length * 3 characters kept for it.
C9_BarAligned ==
    fn = "hexdump" =>
        /\ \A k \in 1..Len(lines) :
              /\ FirstBar(lines[k]) = 11 + length * 3 + 3
              /\ FirstBar(lines[k]) = FirstBar(lines[1])
        /\ pc = "done" =>
              \A k \in 1..Len(DumpLines) :
                  FirstBar(DumpLines[k]) = 11 + length * 3 + 3

\* hexdump printed a full line with the gap and a shorter second line
C9_Witness ==
    /\ fn = "hexdump" /\ pc = "done"
    /\ length >= 9
    /\ Len(DumpLines) = 2
    /\ ChunkSize(1) = length /\ ChunkSize(2) < length
    /\ HasGap(HexColumn(DumpLines[1]))
    /\ FirstBar(DumpLines[1]) = FirstBar(DumpLines[2])

====
